---- MODULE Spec2Model ----
(***************************************************************************)
(* Context generators of hooks/horizon_contexts.py (OpenStack dashboard    *)
(* charm).  Every generator is a call-and-return handler reading the charm *)
(* configuration and the relation data and returning a dict; two of them   *)
(* also write files.  Each generator has its own specification             *)
(* (SpecHAProxy, SpecIdentity, SpecSSL, SpecLocalSettings, SpecWebSSO):    *)
(* the generators share no state, so the variables of the others stay at   *)
(* their idle values.                                                      *)
(*                                                                         *)
(* Python values: a str that the code only stores, compares or formats is  *)
(* a TLA+ string; a str the code inspects character by character (upper,   *)
(* split, replace) is a sequence of one-character strings.  None is the    *)
(* marker None (NoneSeq for character sequences).  A dict is a function    *)
(* from its keys.  The code is Python 2 (the literal 0600 at line 253).    *)
(***************************************************************************)
EXTENDS Integers, Sequences, FiniteSets, TLC

\* Bounds of the model.
MaxUnits == 2
MaxRids == 2
MaxEpEntries == 3

VARIABLES
    haConfig,       \* config(): 'prefer-ipv6', 'vip'
    haEnv,          \* local_unit(), the unit's addresses
    clusterRel,     \* relation 'cluster': rids, each a list of units
    haproxyFile,    \* content of /etc/default/haproxy (None: no such file)
    haOutcome,      \* the last HorizonHAProxyContext() call
    idRel,          \* relation 'identity-service'
    idConfig,       \* config(): 'default_domain', 'endpoint-type'
    idOutcome,      \* the last IdentityServiceContext() call
    idSkipped,      \* positions of the records that call skipped (line 141)
    lsRel,          \* relation 'dashboard-plugin'
    lsOutcome,      \* the last LocalSettingsContext() call
    ssoRel,         \* relation 'websso-fid-service-provider'
    ssoOutcome,     \* the last WebSSOFIDServiceProviderContext() call
    sslEnv,         \* what the certificate helpers and the filesystem give
    sslPc,          \* position of the running ApacheSSLContext() call
    certFile,       \* /etc/ssl/certs/dashboard.cert
    keyFile,        \* /etc/ssl/private/dashboard.key
    sslWrote,       \* the files this call has written
    sslOutcome      \* the ApacheSSLContext() call's result

haVars == <<haConfig, haEnv, clusterRel, haproxyFile, haOutcome>>
idVars == <<idRel, idConfig, idOutcome, idSkipped>>
lsVars == <<lsRel, lsOutcome>>
ssoVars == <<ssoRel, ssoOutcome>>
sslVars == <<sslEnv, sslPc, certFile, keyFile, sslWrote, sslOutcome>>
vars == <<haVars, idVars, lsVars, ssoVars, sslVars>>

----------------------------------------------------------------------------
\* Python values

None == "<None>"
NoneSeq == <<None>>
EmptyDict == <<>>

\* Python truth of a str-or-None value.
Truthy(v) == v # None /\ v # ""

\* '%s' % v
PyStr(v) == IF v = None THEN "None" ELSE v

\* The str of a character sequence.
RECURSIVE Str(_)
Str(s) == IF s = <<>> THEN "" ELSE Head(s) \o Str(Tail(s))

\* s.replace(a, b) for one-character a and b.
Replace(s, a, b) == [i \in 1..Len(s) |-> IF s[i] = a THEN b ELSE s[i]]

\* Sequences over S of length at most n.
SeqsUpTo(S, n) == UNION {[1..k -> S] : k \in 0..n}

RECURSIVE SumSeq(_)
SumSeq(s) == IF s = <<>> THEN 0 ELSE Head(s) + SumSeq(Tail(s))

\* The units of a relation: a list of relation ids (relation_ids), each the
\* list of its units (related_units) with the data relation_get gives.
RECURSIVE Group(_, _)
Group(flat, sizes) ==
    IF sizes = <<>> THEN <<>>
    ELSE <<SubSeq(flat, 1, Head(sizes))>>
         \o Group(SubSeq(flat, Head(sizes) + 1, Len(flat)), Tail(sizes))

Relations(Units, maxUnits, maxRids) ==
    UNION { { Group(flat, sizes) :
                sizes \in { z \in SeqsUpTo(0..Len(flat), maxRids) :
                              SumSeq(z) = Len(flat) } } :
            flat \in SeqsUpTo(Units, maxUnits) }

\* The units in iteration order: for rid in relation_ids: for unit in
\* related_units(rid).
RECURSIVE Flatten(_)
Flatten(rel) == IF rel = <<>> THEN <<>> ELSE Head(rel) \o Flatten(Tail(rel))

NoOutcome == [status |-> "none", ctxt |-> EmptyDict, log |-> <<>>]
Returned(c, l) == [status |-> "returned", ctxt |-> c, log |-> l]
Raised(l) == [status |-> "raised", ctxt |-> EmptyDict, log |-> l]

----------------------------------------------------------------------------
\* HorizonHAProxyContext

HAPROXY_ENABLED == "ENABLED=1\n"

LocalUnits == {<<"d", "/", "0">>, <<"d", "/", "1">>}
PeerUnits == {<<"d", "/", "1">>, <<"d", "/", "2">>}
ClusterUnits == [unit : PeerUnits, addr : {None, "10.0.0.2"}]
HaproxyFiles == {None, "", "ENABLED=0\n", HAPROXY_ENABLED, "ENABLED=0\n# x\n"}

\* get_ipv6_addr(exc_list=...): the unit's global IPv6 addresses outside
\* exc_list; it raises when there is none.
get_ipv6_addr(addrs, exc_list) ==
    SelectSeq(addrs, LAMBDA a : \A i \in 1..Len(exc_list) : exc_list[i] # a)

\* Lines 73-77: cluster_hosts[_unit] = addr for every unit of every rid.
RECURSIVE ClusterHosts(_, _)
ClusterHosts(hosts, units) ==
    IF units = <<>> THEN hosts
    ELSE LET _unit == Str(Replace(Head(units).unit, "/", "-"))
         IN ClusterHosts((_unit :> Head(units).addr) @@ hosts, Tail(units))

\* open(path, 'w'): the file is created or truncated.
OpenW(content) == ""
\* open(path, 'a'): a file opened without truncation.
OpenA(content) == IF content = None THEN "" ELSE content

\* Lines 80-81.
WriteHaproxyAppend(content) == OpenA(content) \o "ENABLED=1\n"
WriteHaproxy(content) == OpenW(content) \o "ENABLED=1\n"

\* log(message, level=None)
Log(msg, level) == [level |-> level, msg |-> msg]

HAProxyLog == <<Log("Ensuring haproxy enabled in /etc/default/haproxy.", None)>>

\* Lines 60-91: the call's outcome and the file it leaves.
HAProxyCall(cfg, env, rel, file) ==
    LET l_unit == Str(Replace(env.local_unit, "/", "-"))
        v6 == get_ipv6_addr(env.ipv6_addrs, <<cfg.vip>>)
    IN IF cfg.prefer_ipv6 /\ v6 = <<>>
       THEN [outcome |-> Raised(<<>>), file |-> file]
       ELSE LET own == IF cfg.prefer_ipv6 THEN v6[1] ELSE env.relation_ip
                cluster_hosts == ClusterHosts(l_unit :> own, Flatten(rel))
            IN [outcome |->
                  Returned([units |-> cluster_hosts,
                            service_ports |->
                              [dash_insecure |-> <<80, 70>>,
                               dash_secure |-> <<443, 433>>],
                            prefer_ipv6 |-> cfg.prefer_ipv6],
                           HAProxyLog),
                file |-> WriteHaproxy(file)]

HAInit ==
    /\ haConfig \in [prefer_ipv6 : BOOLEAN, vip : {None, "2001:db8::1"}]
    /\ haEnv \in [local_unit : LocalUnits,
                  relation_ip : {"10.0.0.1"},
                  ipv6_addrs : {<<>>, <<"2001:db8::1">>,
                                <<"2001:db8::1", "2001:db8::2">>}]
    /\ clusterRel \in Relations(ClusterUnits, MaxUnits, MaxRids)
    /\ haproxyFile \in HaproxyFiles
    /\ haOutcome = NoOutcome

HAIdle ==
    /\ haConfig = [prefer_ipv6 |-> FALSE, vip |-> None]
    /\ haEnv = [local_unit |-> <<"d", "/", "0">>, relation_ip |-> "10.0.0.1",
                ipv6_addrs |-> <<>>]
    /\ clusterRel = <<>>
    /\ haproxyFile = None
    /\ haOutcome = NoOutcome

\* One invocation of HorizonHAProxyContext.__call__.
HorizonHAProxyContext ==
    /\ LET r == HAProxyCall(haConfig, haEnv, clusterRel, haproxyFile)
       IN /\ haOutcome' = r.outcome
          /\ haproxyFile' = r.file
    /\ UNCHANGED <<haConfig, haEnv, clusterRel>>
    /\ UNCHANGED <<idVars, lsVars, ssoVars, sslVars>>

\* config-changed: the operator sets 'prefer-ipv6'.
HAConfigChanged ==
    /\ \E b \in BOOLEAN :
         /\ b # haConfig.prefer_ipv6
         /\ haConfig' = [haConfig EXCEPT !.prefer_ipv6 = b]
    /\ UNCHANGED <<haEnv, clusterRel, haproxyFile, haOutcome>>
    /\ UNCHANGED <<idVars, lsVars, ssoVars, sslVars>>

----------------------------------------------------------------------------
\* IdentityServiceContext

UpperOf ==
    [c \in {"a", "b", "c", "d", "e", "f", "g", "h", "i", "j", "k", "l", "m",
            "n", "o", "p", "q", "r", "s", "t", "u", "v", "w", "x", "y", "z"} |->
       CASE c = "a" -> "A" [] c = "b" -> "B" [] c = "c" -> "C" [] c = "d" -> "D"
         [] c = "e" -> "E" [] c = "f" -> "F" [] c = "g" -> "G" [] c = "h" -> "H"
         [] c = "i" -> "I" [] c = "j" -> "J" [] c = "k" -> "K" [] c = "l" -> "L"
         [] c = "m" -> "M" [] c = "n" -> "N" [] c = "o" -> "O" [] c = "p" -> "P"
         [] c = "q" -> "Q" [] c = "r" -> "R" [] c = "s" -> "S" [] c = "t" -> "T"
         [] c = "u" -> "U" [] c = "v" -> "V" [] c = "w" -> "W" [] c = "x" -> "X"
         [] c = "y" -> "Y" [] c = "z" -> "Z"]

\* str.upper()
Upper(s) ==
    [i \in 1..Len(s) |-> IF s[i] \in DOMAIN UpperOf THEN UpperOf[s[i]] ELSE s[i]]

\* Lines 49-53.
VALID_ENDPOINT_TYPES ==
    (<<"P", "U", "B", "L", "I", "C", "U", "R", "L">> :> "publicURL")
    @@ (<<"I", "N", "T", "E", "R", "N", "A", "L", "U", "R", "L">> :> "internalURL")
    @@ (<<"A", "D", "M", "I", "N", "U", "R", "L">> :> "adminURL")

NormalizeError(endpoint_type) ==
    Log("Endpoint type specified " \o Str(endpoint_type)
        \o " is not a valid endpoint type", "ERROR")

\* normalize() without the upper-casing of its argument.
NormalizeCaseSensitive(endpoint_type) ==
    IF endpoint_type \in DOMAIN VALID_ENDPOINT_TYPES
    THEN [ok |-> TRUE, value |-> VALID_ENDPOINT_TYPES[endpoint_type], log |-> <<>>]
    ELSE [ok |-> FALSE, value |-> None, log |-> <<NormalizeError(endpoint_type)>>]

\* Lines 99-113: the normalized form, or the logged error and the raise.
Normalize(endpoint_type) ==
    LET key == Upper(endpoint_type)
        normalized_form == IF key \in DOMAIN VALID_ENDPOINT_TYPES
                           THEN VALID_ENDPOINT_TYPES[key] ELSE None
    IN IF ~Truthy(normalized_form)
       THEN [ok |-> FALSE, value |-> None,
             log |-> <<NormalizeError(endpoint_type)>>]
       ELSE [ok |-> TRUE, value |-> normalized_form, log |-> <<>>]

\* s.split(sep) for a one-character sep.
RECURSIVE SplitOn(_, _)
SplitOn(s, sep) ==
    IF \A i \in 1..Len(s) : s[i] # sep THEN <<s>>
    ELSE LET i == CHOOSE k \in 1..Len(s) :
                    s[k] = sep /\ \A j \in 1..(k - 1) : s[j] # sep
         IN <<SubSeq(s, 1, i - 1)>> \o SplitOn(SubSeq(s, i + 1, Len(s)), sep)

\* s.split(): the words between runs of whitespace.
SplitWs(s) == SelectSeq(SplitOn(s, " "), LAMBDA w : w # <<>>)

\* sep.join(list)
RECURSIVE Join(_, _)
Join(list, sep) ==
    IF list = <<>> THEN <<>>
    ELSE IF Len(list) = 1 THEN Head(list)
    ELSE Head(list) \o <<sep>> \o Join(Tail(list), sep)

\* format_ipv6_addr(): the bracketed address when it is an IPv6 address,
\* else None.
Ipv6Hosts == {"::1"}
format_ipv6_addr(address) ==
    IF address \in Ipv6Hosts THEN "[" \o address \o "]" ELSE None

\* context_complete(): no value of the dict is None or ''.
context_complete(ctxt) == \A k \in DOMAIN ctxt : ctxt[k] # None /\ ctxt[k] # ""

\* local_ctxt with admin_domain_id taken for every keystone v3 record,
\* whatever config('default_domain') is.
LocalCtxtAnyDomain(rdata, cfg) ==
    LET h == format_ipv6_addr(rdata.service_host)
        serv_host == IF Truthy(h) THEN h ELSE rdata.service_host
        api_version == IF rdata.api_version = None THEN "2"
                       ELSE rdata.api_version
        local_ctxt ==
            ("service_port" :> rdata.service_port)
            @@ ("service_host" :> serv_host)
            @@ ("service_protocol" :>
                  IF Truthy(rdata.service_protocol)
                  THEN rdata.service_protocol ELSE "http")
            @@ ("api_version" :> api_version)
    IN IF api_version = "3"
       THEN ("admin_domain_id" :> rdata.admin_domain_id) @@ local_ctxt
       ELSE local_ctxt

\* Lines 123-139.
LocalCtxt(rdata, cfg) ==
    LET h == format_ipv6_addr(rdata.service_host)
        serv_host == IF Truthy(h) THEN h ELSE rdata.service_host
        api_version == IF rdata.api_version = None THEN "2"
                       ELSE rdata.api_version
        local_ctxt ==
            ("service_port" :> rdata.service_port)
            @@ ("service_host" :> serv_host)
            @@ ("service_protocol" :>
                  IF Truthy(rdata.service_protocol)
                  THEN rdata.service_protocol ELSE "http")
            @@ ("api_version" :> api_version)
    IN IF api_version = "3" /\ ~Truthy(cfg.default_domain)
       THEN ("admin_domain_id" :> rdata.admin_domain_id) @@ local_ctxt
       ELSE local_ctxt

\* Lines 146-147.
Endpoint(local_ctxt) ==
    PyStr(local_ctxt["service_protocol"]) \o "://"
    \o PyStr(local_ctxt["service_host"]) \o ":"
    \o PyStr(local_ctxt["service_port"]) \o "/v2.0"

\* Lines 145-149.
AddRegions(regions, region, local_ctxt) ==
    IF region # NoneSeq
    THEN regions \cup { <<Endpoint(local_ctxt), Str(SplitWs(region)[i])>> :
                          i \in 1..Len(SplitWs(region)) }
    ELSE regions

\* The base context taken from every complete record, the last one winning.
KeepCtxtLast(ctxt, local_ctxt) == local_ctxt
\* Lines 151-152.
KeepCtxt(ctxt, local_ctxt) ==
    IF Cardinality(DOMAIN ctxt) = 0 THEN local_ctxt ELSE ctxt

\* Lines 120-152: the loop over the units, from unit i on.
RECURSIVE RecordLoop(_, _, _, _)
RecordLoop(units, i, cfg, st) ==
    IF i > Len(units) THEN st
    ELSE LET rdata == units[i]
             local_ctxt == LocalCtxt(rdata, cfg)
         IN IF ~context_complete(local_ctxt)
            THEN RecordLoop(units, i + 1, cfg,
                            [st EXCEPT !.skipped = @ \cup {i}])
            ELSE RecordLoop(units, i + 1, cfg,
                            [ctxt |-> KeepCtxt(st.ctxt, local_ctxt),
                             regions |-> AddRegions(st.regions, rdata.region,
                                                    local_ctxt),
                             skipped |-> st.skipped])

\* The 'regions' key set for any region at all.
EmitRegionsAny(ctxt, regions) ==
    IF Cardinality(regions) > 0
    THEN ("regions" :> {[endpoint |-> r[1], title |-> r[2]] : r \in regions})
         @@ ctxt
    ELSE ctxt
\* Lines 154-157.  The value stands for the sorted list: its elements,
\* without their order.
EmitRegions(ctxt, regions) ==
    IF Cardinality(regions) > 1
    THEN ("regions" :> {[endpoint |-> r[1], title |-> r[2]] : r \in regions})
         @@ ctxt
    ELSE ctxt

\* Line 168: [self.normalize(e) for e in ...], stopping at the first raise.
RECURSIVE NormalizeAll(_)
NormalizeAll(entries) ==
    IF entries = <<>> THEN [ok |-> TRUE, values |-> <<>>, log |-> <<>>]
    ELSE LET n == Normalize(Head(entries))
         IN IF ~n.ok THEN [ok |-> FALSE, values |-> <<>>, log |-> n.log]
            ELSE LET rest == NormalizeAll(Tail(entries))
                 IN [ok |-> rest.ok,
                     values |-> IF rest.ok THEN <<n.value>> \o rest.values
                                ELSE <<>>,
                     log |-> rest.log]

IdentityLog == <<Log("Generating template context for identity-service", None)>>

\* Lines 166-173.
EndpointTypes(ctxt, ep_types) ==
    IF ep_types # NoneSeq /\ ep_types # <<>>
    THEN LET n == NormalizeAll(SplitOn(ep_types, ","))
         IN IF ~n.ok THEN Raised(IdentityLog \o n.log)
            ELSE Returned(
                   (IF Len(n.values) > 1
                    THEN "secondary_endpoint" :> n.values[2] ELSE EmptyDict)
                   @@ ("primary_endpoint" :> n.values[1]) @@ ctxt,
                   IdentityLog)
    ELSE Returned(ctxt, IdentityLog)

\* Lines 115-173: the call's outcome and the records it skipped.
IdentityCall(rel, cfg) ==
    LET st == RecordLoop(Flatten(rel), 1, cfg,
                         [ctxt |-> EmptyDict, regions |-> {}, skipped |-> {}])
    IN [outcome |-> EndpointTypes(EmitRegions(st.ctxt, st.regions),
                                  cfg.endpoint_type),
        skipped |-> st.skipped]

\* Relation data of identity-service units (None: the key is not set; Juju
\* keeps no key with an empty value).
IdRec(h, p, proto, api, adm, reg) ==
    [service_host |-> h, service_port |-> p, service_protocol |-> proto,
     api_version |-> api, admin_domain_id |-> adm, region |-> reg]

RegA == <<"a">>
RegAB == <<"a", " ", "b">>

IdRecords ==
    {IdRec("h", "5000", None, None, None, reg) : reg \in {NoneSeq, RegA, RegAB}}
    \cup {IdRec("h", "5000", "https", None, None, RegA),
          IdRec("::1", "5000", None, None, None, RegA),
          IdRec(None, "5000", None, None, None, RegAB),
          IdRec("h", None, None, None, None, RegA)}
    \cup {IdRec("h", "5000", None, "3", adm, reg) :
            adm \in {None, "d"}, reg \in {NoneSeq, RegA}}
    \cup {IdRec("h", "5000", None, None, "d", NoneSeq),
          IdRec(None, None, None, None, None, NoneSeq)}

\* Entries of the 'endpoint-type' option.
EpPublic == <<"p", "u", "b", "l", "i", "c", "U", "R", "L">>
EpInternalLower == <<"i", "n", "t", "e", "r", "n", "a", "l", "u", "r", "l">>
EpAdminUpper == <<"A", "D", "M", "I", "N", "U", "R", "L">>
EpSpaced == <<" ", "a", "d", "m", "i", "n", "U", "R", "L">>
EpBogus == <<"b", "o", "g", "u", "s">>
EpEntries == {EpPublic, EpInternalLower, EpAdminUpper, <<>>, EpSpaced, EpBogus}

\* Values of the option: unset, or entries joined by commas.
EpConfigs ==
    {NoneSeq}
    \cup UNION {{Join(list, ",") : list \in [1..k -> EpEntries]} :
                 k \in 1..MaxEpEntries}

IdInit ==
    /\ \/ /\ idRel \in Relations(IdRecords, MaxUnits, MaxRids)
          /\ idConfig \in [default_domain : {None, "dd"},
                           endpoint_type : {NoneSeq, EpPublic}]
       \/ /\ idRel \in {<<>>,
                        <<<<IdRec("h", "5000", None, None, None, RegAB)>>>>}
          /\ idConfig \in [default_domain : {None}, endpoint_type : EpConfigs]
    /\ idOutcome = NoOutcome
    /\ idSkipped = {}

IdIdle ==
    /\ idRel = <<>>
    /\ idConfig = [default_domain |-> None, endpoint_type |-> NoneSeq]
    /\ idOutcome = NoOutcome
    /\ idSkipped = {}

\* One invocation of IdentityServiceContext.__call__.
IdentityServiceContext ==
    /\ LET r == IdentityCall(idRel, idConfig)
       IN /\ idOutcome' = r.outcome
          /\ idSkipped' = r.skipped
    /\ UNCHANGED <<idRel, idConfig>>
    /\ UNCHANGED <<haVars, lsVars, ssoVars, sslVars>>

----------------------------------------------------------------------------
\* LocalSettingsContext

\* Relation data holds strings: a priority is a string of decimal digits.
DigitOf ==
    [c \in {"0", "1", "2", "3", "4", "5", "6", "7", "8", "9"} |->
       CASE c = "0" -> 0 [] c = "1" -> 1 [] c = "2" -> 2 [] c = "3" -> 3
         [] c = "4" -> 4 [] c = "5" -> 5 [] c = "6" -> 6 [] c = "7" -> 7
         [] c = "8" -> 8 [] c = "9" -> 9]

\* a < b for two Python 2 str values of digits: character by character, a
\* proper prefix first.
RECURSIVE PyStrLess(_, _)
PyStrLess(a, b) ==
    IF b = <<>> THEN FALSE
    ELSE IF a = <<>> THEN TRUE
    ELSE IF DigitOf[Head(a)] # DigitOf[Head(b)]
         THEN DigitOf[Head(a)] < DigitOf[Head(b)]
    ELSE PyStrLess(Tail(a), Tail(b))

\* sorted(list, key=lambda r: r[1]['priority']): a stable insertion, each
\* element after the elements that are not greater.
RECURSIVE InsertByPriority(_, _)
InsertByPriority(sorted, r) ==
    IF sorted = <<>> THEN <<r>>
    ELSE IF PyStrLess(r[2]["priority"], Head(sorted)[2]["priority"])
         THEN <<r>> \o sorted
    ELSE <<Head(sorted)>> \o InsertByPriority(Tail(sorted), r)

RECURSIVE SortedByPriority(_)
SortedByPriority(relations) ==
    IF relations = <<>> THEN <<>>
    ELSE InsertByPriority(SortedByPriority(SubSeq(relations, 1, Len(relations) - 1)),
                          relations[Len(relations)])

\* Lines 284-292: (unit, rdata) of the first unit of every rid whose data has
\* both keys.
RECURSIVE PluginRelations(_)
PluginRelations(rel) ==
    IF rel = <<>> THEN <<>>
    ELSE (IF Head(rel) = <<>> THEN <<>>
          ELSE LET unit == Head(rel)[1].unit
                   rdata == Head(rel)[1].rdata
               IN IF {"local-settings", "priority"} \subseteq DOMAIN rdata
                  THEN <<<<unit, rdata>>>> ELSE <<>>)
         \o PluginRelations(Tail(rel))

\* '# {0}\n{1}'.format(u, rd['local-settings'])
RenderSetting(r) == "# " \o r[1] \o "\n" \o r[2]["local-settings"]

\* Lines 279-300.
LocalSettingsCall(rel) ==
    LET sorted == SortedByPriority(PluginRelations(rel))
    IN Returned([settings |-> [i \in 1..Len(sorted) |-> RenderSetting(sorted[i])]],
                <<>>)

PluginData ==
    {("local-settings" :> t) @@ ("priority" :> p) :
       t \in {"A = 1", "B = 2"}, p \in {<<"9">>, <<"1", "0">>, <<"6", "0">>}}
    \cup {"local-settings" :> "A = 1", "priority" :> <<"9">>, EmptyDict}
    \cup {("local-settings" :> "B = 2") @@ ("priority" :> <<"6", "0">>)
          @@ ("other" :> "x")}

PluginUnits == [unit : {"p/0", "q/0"}, rdata : PluginData]

LsInit ==
    /\ lsRel \in Relations(PluginUnits, MaxUnits, MaxRids)
    /\ lsOutcome = NoOutcome

LsIdle ==
    /\ lsRel = <<>>
    /\ lsOutcome = NoOutcome

\* One invocation of LocalSettingsContext.__call__.
LocalSettingsContext ==
    /\ lsOutcome' = LocalSettingsCall(lsRel)
    /\ UNCHANGED lsRel
    /\ UNCHANGED <<haVars, idVars, ssoVars, sslVars>>

----------------------------------------------------------------------------
\* WebSSOFIDServiceProviderContext

\* Line 307.
websso_keys == <<"protocol-name", "idp-name", "user-facing-name">>

\* json.loads() on the texts of the model: a double-quoted word is a JSON
\* string and decodes to the word; any other text is not JSON and raises.
JsonLoads(text) ==
    IF /\ Len(text) >= 2
       /\ text[1] = "\"" /\ text[Len(text)] = "\""
       /\ \A i \in 2..(Len(text) - 1) : text[i] # "\""
    THEN [ok |-> TRUE, value |-> Str(SubSeq(text, 2, Len(text) - 1))]
    ELSE [ok |-> FALSE, value |-> None]

\* Lines 322-323: {k: json.loads(rdata[k]) for k in websso_keys}
Descriptor(rdata) ==
    IF \A i \in 1..Len(websso_keys) : JsonLoads(rdata[websso_keys[i]]).ok
    THEN [ok |-> TRUE,
          value |-> [k \in {websso_keys[i] : i \in 1..Len(websso_keys)} |->
                       JsonLoads(rdata[k]).value]]
    ELSE [ok |-> FALSE, value |-> EmptyDict]

\* Lines 310-323: the collected descriptors, or the raise of json.loads.
RECURSIVE SsoRelations(_, _)
SsoRelations(rel, relations) ==
    IF rel = <<>> THEN [ok |-> TRUE, relations |-> relations]
    ELSE IF Head(rel) = <<>> THEN SsoRelations(Tail(rel), relations)
    ELSE LET rdata == Head(rel)[1]
         IN IF {websso_keys[i] : i \in 1..Len(websso_keys)} \subseteq DOMAIN rdata
            THEN IF Descriptor(rdata).ok
                 THEN SsoRelations(Tail(rel),
                                   Append(relations, Descriptor(rdata).value))
                 ELSE [ok |-> FALSE, relations |-> <<>>]
            ELSE SsoRelations(Tail(rel), relations)

\* The context with the key whatever the list holds.
SsoCtxtAlways(relations) == "websso_data" :> relations
\* Line 326.
SsoCtxt(relations) ==
    IF relations # <<>> THEN "websso_data" :> relations ELSE EmptyDict

\* Lines 306-327.
WebSSOCall(rel) ==
    LET r == SsoRelations(rel, <<>>)
    IN IF r.ok THEN Returned(SsoCtxt(r.relations), <<>>) ELSE Raised(<<>>)

JsonS == <<"\"", "s", "\"">>
JsonI == <<"\"", "i", "\"">>
JsonJ == <<"\"", "j", "\"">>
JsonU == <<"\"", "u", "\"">>
NotJson == <<"i">>

SsoData ==
    {("protocol-name" :> JsonS) @@ ("idp-name" :> i) @@ ("user-facing-name" :> JsonU) :
       i \in {JsonI, JsonJ, NotJson}}
    \cup {("protocol-name" :> JsonS) @@ ("idp-name" :> JsonI),
          ("protocol-name" :> JsonS) @@ ("user-facing-name" :> JsonU),
          ("idp-name" :> JsonJ) @@ ("user-facing-name" :> JsonU),
          EmptyDict,
          ("protocol-name" :> JsonS) @@ ("idp-name" :> JsonJ)
          @@ ("user-facing-name" :> JsonU) @@ ("other" :> NotJson)}

SsoInit ==
    /\ ssoRel \in Relations(SsoData, MaxUnits, MaxRids)
    /\ ssoOutcome = NoOutcome

SsoIdle ==
    /\ ssoRel = <<>>
    /\ ssoOutcome = NoOutcome

\* One invocation of WebSSOFIDServiceProviderContext.__call__.
WebSSOFIDServiceProviderContext ==
    /\ ssoOutcome' = WebSSOCall(ssoRel)
    /\ UNCHANGED ssoRel
    /\ UNCHANGED <<haVars, idVars, lsVars, sslVars>>

----------------------------------------------------------------------------
\* ApacheSSLContext

\* Line 253: 0600
KEY_MODE == 384

SSL_CERT_FILE == "/etc/apache2/ssl/horizon/cert_dashboard"
SSL_KEY_FILE == "/etc/apache2/ssl/horizon/key_dashboard"

\* base64.b64decode() on the texts of the model; Python 2 raises TypeError
\* (incorrect padding) on "abc".
B64Texts == {"Y2E=", "Y2VydA==", "a2V5"}
B64Invalid == "abc"
b64decode(text) ==
    IF text \in B64Texts
    THEN [ok |-> TRUE,
          value |-> CASE text = "Y2E=" -> "ca"
                      [] text = "Y2VydA==" -> "cert"
                      [] text = "a2V5" -> "key"]
    ELSE [ok |-> FALSE, value |-> None]

\* The permission bits of a that are not bits of b.
RECURSIVE BitsAndNot(_, _)
BitsAndNot(a, b) ==
    IF a = 0 THEN 0
    ELSE 2 * BitsAndNot(a \div 2, b \div 2)
         + (IF a % 2 = 1 /\ b % 2 = 0 THEN 1 ELSE 0)

NoFile == [exists |-> FALSE, mode |-> 0, content |-> ""]

\* open(path, 'w'): an existing file is truncated and keeps its mode, a new
\* one is created with mode 0666 & ~umask.
OpenForWrite(file, umask) ==
    [exists |-> TRUE,
     mode |-> IF file.exists THEN file.mode ELSE BitsAndNot(438, umask),
     content |-> ""]

\* Readable by the group or by others.
ReadableByOthers(mode) == (mode \div 32) % 2 = 1 \/ (mode \div 4) % 2 = 1

\* Lines 237-239.
UseLocalCa(certificates) == \A i \in 1..Len(certificates) : certificates[i] = 0

SslUnconfigured == "ssl_configured" :> FALSE
SslConfigured(cert, key) ==
    ("ssl_configured" :> TRUE) @@ ("ssl_cert" :> cert) @@ ("ssl_key" :> key)

CertValues == {None, "", "Y2VydA==", B64Invalid}
KeyValues == {None, "", "a2V5", B64Invalid}

SslInit ==
    /\ sslEnv \in [certificates : {<<>>, <<0>>, <<1>>, <<0, 2>>},
                   ca_cert : {None, "Y2E=", B64Invalid},
                   ssl_cert : CertValues,
                   ssl_key : KeyValues,
                   cert_file_exists : BOOLEAN,
                   key_file_exists : BOOLEAN,
                   umask : {18, 63}]
    /\ sslPc = "start"
    /\ certFile \in {NoFile, [exists |-> TRUE, mode |-> 420, content |-> "old cert"]}
    /\ keyFile \in {NoFile, [exists |-> TRUE, mode |-> KEY_MODE, content |-> "old key"]}
    /\ sslWrote = [ca |-> FALSE, cert |-> FALSE, key |-> FALSE]
    /\ sslOutcome = NoOutcome

SslIdle ==
    /\ sslEnv = [certificates |-> <<>>, ca_cert |-> None, ssl_cert |-> None,
                 ssl_key |-> None, cert_file_exists |-> FALSE,
                 key_file_exists |-> FALSE, umask |-> 18]
    /\ sslPc = "start"
    /\ certFile = NoFile
    /\ keyFile = NoFile
    /\ sslWrote = [ca |-> FALSE, cert |-> FALSE, key |-> FALSE]
    /\ sslOutcome = NoOutcome

SslReturn(ctxt) ==
    /\ sslPc' = "done"
    /\ sslOutcome' = Returned(ctxt, <<>>)

SslRaise ==
    /\ sslPc' = "raised"
    /\ sslOutcome' = Raised(<<>>)

\* Lines 235-248 and 259-266: up to the decision to write the files.
SSLBegin ==
    /\ sslPc = "start"
    /\ IF UseLocalCa(sslEnv.certificates)
       THEN IF ~Truthy(sslEnv.ca_cert)
            THEN SslReturn(SslUnconfigured) /\ UNCHANGED sslWrote
            ELSE IF ~b64decode(sslEnv.ca_cert).ok
            THEN SslRaise /\ UNCHANGED sslWrote
            ELSE /\ sslWrote' = [sslWrote EXCEPT !.ca = TRUE]
                 /\ IF Truthy(sslEnv.ssl_cert) /\ Truthy(sslEnv.ssl_key)
                    THEN sslPc' = "open_cert" /\ UNCHANGED sslOutcome
                    ELSE SslReturn(SslUnconfigured)
       ELSE /\ UNCHANGED sslWrote
            /\ IF sslEnv.cert_file_exists /\ sslEnv.key_file_exists
               THEN SslReturn(SslConfigured(SSL_CERT_FILE, SSL_KEY_FILE))
               ELSE SslReturn(SslUnconfigured)
    /\ UNCHANGED <<sslEnv, certFile, keyFile>>
    /\ UNCHANGED <<haVars, idVars, lsVars, ssoVars>>

\* Line 249.
SSLOpenCert ==
    /\ sslPc = "open_cert"
    /\ certFile' = OpenForWrite(certFile, sslEnv.umask)
    /\ sslPc' = "write_cert"
    /\ UNCHANGED <<sslEnv, keyFile, sslWrote, sslOutcome>>
    /\ UNCHANGED <<haVars, idVars, lsVars, ssoVars>>

\* Line 250.
SSLWriteCert ==
    /\ sslPc = "write_cert"
    /\ IF b64decode(sslEnv.ssl_cert).ok
       THEN /\ certFile' = [certFile EXCEPT
                              !.content = b64decode(sslEnv.ssl_cert).value]
            /\ sslWrote' = [sslWrote EXCEPT !.cert = TRUE]
            /\ sslPc' = "open_key"
            /\ UNCHANGED sslOutcome
       ELSE SslRaise /\ UNCHANGED <<certFile, sslWrote>>
    /\ UNCHANGED <<sslEnv, keyFile>>
    /\ UNCHANGED <<haVars, idVars, lsVars, ssoVars>>

\* Line 251.
SSLOpenKey ==
    /\ sslPc = "open_key"
    /\ keyFile' = OpenForWrite(keyFile, sslEnv.umask)
    /\ sslPc' = "write_key"
    /\ UNCHANGED <<sslEnv, certFile, sslWrote, sslOutcome>>
    /\ UNCHANGED <<haVars, idVars, lsVars, ssoVars>>

\* Line 252.
SSLWriteKey ==
    /\ sslPc = "write_key"
    /\ IF b64decode(sslEnv.ssl_key).ok
       THEN /\ keyFile' = [keyFile EXCEPT
                             !.content = b64decode(sslEnv.ssl_key).value]
            /\ sslWrote' = [sslWrote EXCEPT !.key = TRUE]
            /\ sslPc' = "chmod_key"
            /\ UNCHANGED sslOutcome
       ELSE SslRaise /\ UNCHANGED <<keyFile, sslWrote>>
    /\ UNCHANGED <<sslEnv, certFile>>
    /\ UNCHANGED <<haVars, idVars, lsVars, ssoVars>>

\* Lines 253-258 and 266.
SSLChmodKey ==
    /\ sslPc = "chmod_key"
    /\ keyFile' = [keyFile EXCEPT !.mode = KEY_MODE]
    /\ SslReturn(SslConfigured("/etc/ssl/certs/dashboard.cert",
                               "/etc/ssl/private/dashboard.key"))
    /\ UNCHANGED <<sslEnv, certFile, sslWrote>>
    /\ UNCHANGED <<haVars, idVars, lsVars, ssoVars>>

----------------------------------------------------------------------------
\* Specifications: one per context generator.

HANext == HorizonHAProxyContext \/ HAConfigChanged
InitHAProxy == HAInit /\ IdIdle /\ LsIdle /\ SsoIdle /\ SslIdle
SpecHAProxy ==
    /\ InitHAProxy
    /\ [][HANext]_vars

IdNext == IdentityServiceContext
InitIdentity == HAIdle /\ IdInit /\ LsIdle /\ SsoIdle /\ SslIdle
SpecIdentity ==
    /\ InitIdentity
    /\ [][IdNext]_vars

LsNext == LocalSettingsContext
InitLocalSettings == HAIdle /\ IdIdle /\ LsInit /\ SsoIdle /\ SslIdle
SpecLocalSettings ==
    /\ InitLocalSettings
    /\ [][LsNext]_vars

SsoNext == WebSSOFIDServiceProviderContext
InitWebSSO == HAIdle /\ IdIdle /\ LsIdle /\ SsoInit /\ SslIdle
SpecWebSSO ==
    /\ InitWebSSO
    /\ [][SsoNext]_vars

SslNext ==
    \/ SSLBegin
    \/ SSLOpenCert
    \/ SSLWriteCert
    \/ SSLOpenKey
    \/ SSLWriteKey
    \/ SSLChmodKey
InitSSL == HAIdle /\ IdIdle /\ LsIdle /\ SsoIdle /\ SslInit
SpecSSL ==
    /\ InitSSL
    /\ [][SslNext]_vars

----------------------------------------------------------------------------
\* Properties of HorizonHAProxyContext

----------------------------------------------------------------------------
\* Properties of IdentityServiceContext

BaseKeys ==
    {"service_port", "service_host", "service_protocol", "api_version",
     "admin_domain_id"}

\* The (endpoint, region) pairs of the records at the positions in which.
RegionPairs(units, cfg, which) ==
    UNION { { <<Endpoint(LocalCtxt(units[i], cfg)), Str(SplitWs(units[i].region)[j])>> :
                j \in 1..Len(SplitWs(units[i].region)) } :
            i \in {k \in which : units[k].region # NoneSeq} }

CompleteUnits(units, cfg) ==
    {i \in 1..Len(units) : context_complete(LocalCtxt(units[i], cfg))}

\* C2, as stated: the returned context has the key 'regions' if and only if
\* the records that carry a region give at least two distinct
\* (endpoint, region) pairs, the endpoint of a record being
\* <protocol>://<host>:<port>/v2.0 (a record with no host or no port has no
\* endpoint and gives no pair).
C2_RegionsIffTwoPairs ==
    idOutcome.status = "returned" =>
        LET units == Flatten(idRel)
            addressed == {i \in 1..Len(units) :
                            /\ units[i].service_host # None
                            /\ units[i].service_port # None}
        IN ("regions" \in DOMAIN idOutcome.ctxt)
           <=> Cardinality(RegionPairs(units, idConfig, addressed)) >= 2

\* C2, amended: the returned context has the key 'regions' if and only if
\* the complete records that carry a region give at least two distinct
\* (endpoint, region) pairs; the key then holds exactly those pairs.
C2_RegionsIffTwoPairsOfCompleteRecords ==
    idOutcome.status = "returned" =>
        LET units == Flatten(idRel)
            pairs == RegionPairs(units, idConfig, CompleteUnits(units, idConfig))
        IN /\ ("regions" \in DOMAIN idOutcome.ctxt) <=> Cardinality(pairs) >= 2
           /\ "regions" \in DOMAIN idOutcome.ctxt =>
                idOutcome.ctxt["regions"] =
                    {[endpoint |-> p[1], title |-> p[2]] : p \in pairs}

C2_Witness ==
    /\ idOutcome.status = "returned"
    /\ "regions" \in DOMAIN idOutcome.ctxt
    /\ Len(Flatten(idRel)) = 2
    /\ Cardinality(CompleteUnits(Flatten(idRel), idConfig)) = 1

\* C3: the base fields of the returned context are those of the first
\* complete record in iteration order, whatever records come after it; with
\* no complete record the context has no base field.
C3_FirstCompleteRecordIsBase ==
    idOutcome.status = "returned" =>
        LET units == Flatten(idRel)
            complete == CompleteUnits(units, idConfig)
        IN IF complete = {}
           THEN DOMAIN idOutcome.ctxt \cap BaseKeys = {}
           ELSE LET first == CHOOSE i \in complete : \A j \in complete : i <= j
                    rdata == units[first]
                    ctxt == idOutcome.ctxt
                IN /\ ctxt["service_port"] = rdata.service_port
                   /\ ctxt["service_host"] =
                        (IF rdata.service_host \in Ipv6Hosts
                         THEN "[" \o rdata.service_host \o "]"
                         ELSE rdata.service_host)
                   /\ ctxt["service_protocol"] =
                        (IF rdata.service_protocol = None THEN "http"
                         ELSE rdata.service_protocol)
                   /\ ctxt["api_version"] =
                        (IF rdata.api_version = None THEN "2"
                         ELSE rdata.api_version)
                   /\ "admin_domain_id" \in DOMAIN ctxt
                        <=> (rdata.api_version = "3"
                             /\ idConfig.default_domain = None)
                   /\ "admin_domain_id" \in DOMAIN ctxt
                        => ctxt["admin_domain_id"] = rdata.admin_domain_id

C3_Witness ==
    /\ idOutcome.status = "returned"
    /\ LET units == Flatten(idRel)
       IN /\ Len(units) = 2
          /\ CompleteUnits(units, idConfig) = {1, 2}
          /\ LocalCtxt(units[1], idConfig) # LocalCtxt(units[2], idConfig)
          /\ idOutcome.ctxt["service_host"] = "[::1]"

\* C10, as stated: a record is skipped if and only if its service_host or
\* its service_port is missing.
C10_OnlyHostOrPortRejects ==
    idOutcome.status # "none" =>
        \A i \in 1..Len(Flatten(idRel)) :
            i \in idSkipped
            <=> (\/ Flatten(idRel)[i].service_host = None
                 \/ Flatten(idRel)[i].service_port = None)

\* C10, amended: a record is skipped if and only if its service_host or its
\* service_port is missing, or its api_version is '3' while no
\* default_domain is configured and its admin_domain_id is missing.
C10_HostPortOrDomainRejects ==
    idOutcome.status # "none" =>
        \A i \in 1..Len(Flatten(idRel)) :
            i \in idSkipped
            <=> (\/ Flatten(idRel)[i].service_host = None
                 \/ Flatten(idRel)[i].service_port = None
                 \/ /\ Flatten(idRel)[i].api_version = "3"
                    /\ idConfig.default_domain = None
                    /\ Flatten(idRel)[i].admin_domain_id = None)

C10_Witness ==
    /\ idOutcome.status = "returned"
    /\ \E i \in idSkipped :
         /\ Flatten(idRel)[i].service_host # None
         /\ Flatten(idRel)[i].service_port # None
    /\ \E i \in 1..Len(Flatten(idRel)) :
         /\ i \notin idSkipped
         /\ Flatten(idRel)[i].api_version = "3"

\* The canonical form the claims give for an endpoint type, None for a
\* string that is no endpoint type.
Canonical(e) ==
    CASE Upper(e) = <<"P", "U", "B", "L", "I", "C", "U", "R", "L">> -> "publicURL"
      [] Upper(e) = <<"I", "N", "T", "E", "R", "N", "A", "L", "U", "R", "L">>
           -> "internalURL"
      [] Upper(e) = <<"A", "D", "M", "I", "N", "U", "R", "L">> -> "adminURL"
      [] OTHER -> None

C9_LaterEntriesIgnored ==
    (idOutcome.status # "none" /\ idConfig.endpoint_type # NoneSeq
     /\ idConfig.endpoint_type # <<>>) =>
        LET entries == SplitOn(idConfig.endpoint_type, ",")
            firstTwo == SubSeq(entries, 1, IF Len(entries) > 2 THEN 2
                                           ELSE Len(entries))
        IN /\ idOutcome =
                IdentityCall(idRel, [idConfig EXCEPT
                                       !.endpoint_type = Join(firstTwo, ",")]).outcome
           /\ idOutcome.status = "returned" =>
                /\ idOutcome.ctxt["primary_endpoint"] = Canonical(entries[1])
                /\ "secondary_endpoint" \in DOMAIN idOutcome.ctxt
                     <=> Len(entries) > 1
                /\ Len(entries) > 1 =>
                     idOutcome.ctxt["secondary_endpoint"] = Canonical(entries[2])

----------------------------------------------------------------------------
\* Properties of LocalSettingsContext

\* The number a string of digits stands for.
RECURSIVE Number(_)
Number(digits) ==
    IF digits = <<>> THEN 0
    ELSE 10 * Number(SubSeq(digits, 1, Len(digits) - 1))
         + DigitOf[digits[Len(digits)]]

\* C1: when the collected fragments have pairwise distinct numeric
\* priorities, 'settings' lists them in ascending numeric priority order.
C1_AscendingNumericPriority ==
    lsOutcome.status = "returned" =>
        LET frags == PluginRelations(lsRel)
            prio(i) == Number(frags[i][2]["priority"])
            rank(i) == 1 + Cardinality({j \in 1..Len(frags) : prio(j) < prio(i)})
        IN (\A i, j \in 1..Len(frags) : i # j => prio(i) # prio(j)) =>
              /\ Len(lsOutcome.ctxt.settings) = Len(frags)
              /\ \A i \in 1..Len(frags) :
                   lsOutcome.ctxt.settings[rank(i)] = RenderSetting(frags[i])

----------------------------------------------------------------------------
\* Properties of WebSSOFIDServiceProviderContext

\* C8: the returned mapping is empty when no descriptor was collected and
\* otherwise holds only 'websso_data', the list of one three-key descriptor
\* for every relation id whose first unit supplies the three keys, in
\* relation-id order.
C8_WebssoDataIffCollected ==
    ssoOutcome.status = "returned" =>
        LET keys == {"protocol-name", "idp-name", "user-facing-name"}
            supplying == SelectSeq(ssoRel,
                           LAMBDA rid : rid # <<>> /\ keys \subseteq DOMAIN rid[1])
            ctxt == ssoOutcome.ctxt
        IN IF supplying = <<>>
           THEN ctxt = EmptyDict
           ELSE /\ DOMAIN ctxt = {"websso_data"}
                /\ Len(ctxt["websso_data"]) = Len(supplying)
                /\ \A i \in 1..Len(supplying) :
                     /\ DOMAIN ctxt["websso_data"][i] = keys
                     /\ \A k \in keys :
                          <<"\"">> \o
                          <<ctxt["websso_data"][i][k]>> \o <<"\"">>
                          = supplying[i][1][k]

C8_Witness ==
    /\ ssoOutcome.status = "returned"
    /\ Len(ssoRel) = 2
    /\ "websso_data" \in DOMAIN ssoOutcome.ctxt
    /\ Len(ssoOutcome.ctxt["websso_data"]) = 2
    /\ ssoOutcome.ctxt["websso_data"][1]["idp-name"] = "j"
    /\ ssoOutcome.ctxt["websso_data"][2]["idp-name"] = "i"

----------------------------------------------------------------------------
\* Properties of ApacheSSLContext

\* C4: the key file never holds key material written by the call while its
\* permission lets the group or others read it.
C4_KeyNeverReadableByOthers ==
    (sslWrote.key /\ keyFile.content # "") => ~ReadableByOthers(keyFile.mode)

\* C5: no execution ends with exactly one of the two files written, and the
\* files are written only on the local authority path with a CA
\* certificate, a certificate and a key.
C5_BothFilesOrNeither ==
    sslPc \in {"done", "raised"} =>
        /\ sslWrote.cert <=> sslWrote.key
        /\ sslWrote.cert =>
             /\ UseLocalCa(sslEnv.certificates)
             /\ Truthy(sslEnv.ca_cert)
             /\ Truthy(sslEnv.ssl_cert)
             /\ Truthy(sslEnv.ssl_key)

====
